---- MODULE Spec2Model ----
(***************************************************************************)
(* A model of LaneIsolator (LaneDetector.py): per-channel histogram        *)
(* equalisation, colour thresholding in three colour spaces, Sobel         *)
(* gradient thresholding, and the union of the two selections.             *)
(*                                                                         *)
(* A frame is a record [c, px]: c is the channel count (the size of the    *)
(* third numpy axis) and px the rows, each row a sequence of pixels, each  *)
(* pixel a sequence of c samples in 0..255 (uint8, BGR order).  A map is   *)
(* the same without the channel axis.  Floating-point maps are held in     *)
(* fixed point: the gradient magnitude in 1/MagFix units, the gradient     *)
(* direction in 1/AngFix radians.                                          *)
(***************************************************************************)
EXTENDS Integers, Sequences, FiniteSets, TLC

(***************************************************************************)
(* Bounds of the model.                                                    *)
(***************************************************************************)
MaxH == 3
MaxW == 3
MaxChan == 4
MaxCalls == 2
BigW == 513

(***************************************************************************)
(* Arithmetic helpers.                                                     *)
(***************************************************************************)
Max2(a, b) == IF a >= b THEN a ELSE b
Min2(a, b) == IF a <= b THEN a ELSE b
MinOf(S) == CHOOSE m \in S : \A x \in S : m <= x
Abs(a) == IF a < 0 THEN -a ELSE a

\* cvRound(n/d) for n >= 0, d > 0: round to nearest, ties to even.
cvRound(n, d) ==
  LET q == n \div d
      r == n % d
  IN  IF 2 * r < d THEN q
      ELSE IF 2 * r > d THEN q + 1
      ELSE q + (q % 2)

\* cvRound of a signed quotient.
cvRoundS(n, d) == IF n >= 0 THEN cvRound(n, d) ELSE -cvRound(-n, d)

\* saturate_cast<uchar>
saturate(v) == Max2(0, Min2(255, v))

RECURSIVE RootSearch(_, _, _, _)
\* The largest r in lo..hi with r^k <= x (k is 2 or 3), by bisection.
RootSearch(x, k, lo, hi) ==
  IF lo >= hi THEN lo
  ELSE LET mid == (lo + hi + 1) \div 2
           pw  == IF k = 2 THEN mid * mid ELSE mid * mid * mid
       IN  IF pw <= x THEN RootSearch(x, k, mid, hi)
           ELSE RootSearch(x, k, lo, mid - 1)

ISqrt(x) == RootSearch(x, 2, 0, 46340)
ICbrtFloor(x) == RootSearch(x, 3, 0, 1290)

\* The cube root of x rounded to the nearest integer.
ICbrt(x) ==
  LET r == ICbrtFloor(x)
  IN  IF 4 * (x - r * r * r) >= 6 * r * r + 3 * r + 1 THEN r + 1 ELSE r

(***************************************************************************)
(* Frames and maps.                                                        *)
(***************************************************************************)
Height(f) == Len(f.px)
Width(f) == IF Len(f.px) = 0 THEN 0 ELSE Len(f.px[1])
MapH(m) == Len(m)
MapW(m) == IF Len(m) = 0 THEN 0 ELSE Len(m[1])
Cells(m) == (1..MapH(m)) \X (1..MapW(m))

\* The h x w map m as explicit sequences of sequences.
AsMap(m, h, w) == SubSeq([r \in 1..h |-> SubSeq(m[r], 1, w)], 1, h)

\* img[:, :, k] (k counted from 1 here)
Channel(f, k) == AsMap([r \in 1..Height(f) |-> [x \in 1..Width(f) |-> f.px[r][x][k]]], Height(f), Width(f))

\* img[:, :, k] = m
SetChannel(f, k, m) ==
  [f EXCEPT !.px = AsMap([r \in 1..Height(f) |-> [x \in 1..Width(f) |->
                      [f.px[r][x] EXCEPT ![k] = m[r][x]]]], Height(f), Width(f))]

\* np.zeros_like(m)
zeros_like(m) == AsMap([r \in 1..MapH(m) |-> [x \in 1..MapW(m) |-> 0]], MapH(m), MapW(m))

(***************************************************************************)
(* cv2.equalizeHist on one 8-bit channel: the histogram, the first         *)
(* occupied bin i0, scale = 255 / (total - hist[i0]), and the look-up      *)
(* table lut[v] = saturate(round(cumulative count above i0 up to v *       *)
(* scale)), lut[i0] = 0.  A channel with one value only is copied.         *)
(***************************************************************************)
equalizeHist(m) ==
  LET cells   == Cells(m)
      present == {m[p[1]][p[2]] : p \in cells}
      total   == Cardinality(cells)
      first   == MinOf(present)
      h0      == Cardinality({p \in cells : m[p[1]][p[2]] = first})
      cum(v)  == Cardinality({p \in cells : m[p[1]][p[2]] > first /\ m[p[1]][p[2]] <= v})
      lut     == SubSeq([i \in 1..256 |->
                    IF (i - 1) \notin present \/ i - 1 = first THEN 0
                    ELSE saturate(cvRound(cum(i - 1) * 255, total - h0))], 1, 256)
  IN  IF cells = {} THEN m
      ELSE IF h0 = total THEN m
      ELSE AsMap([r \in 1..MapH(m) |-> [x \in 1..MapW(m) |-> lut[m[r][x] + 1]]], MapH(m), MapW(m))

(***************************************************************************)
(* cv2.cvtColor, 8-bit.  The sRGB linearisation table is in 1/2040 units   *)
(* (255 * 8), as the library's; LabF is the CIE f function in 1/1000.      *)
(* With f held to three decimals, L and b can differ from the library's    *)
(* 8-bit value by one unit; gray pixels (B = G = R) give S = 0 and b = 128 *)
(* exactly, as in the library.                                             *)
(***************************************************************************)
sRGBGammaTab ==
  <<      0,    1,    1,    2,    2,    3,    4,    4,    5,    6,    6,    7,    8,    8,    9,   10,
         11,   11,   12,   13,   14,   15,   16,   17,   19,   20,   21,   22,   24,   25,   26,   28,
         29,   31,   33,   34,   36,   38,   40,   41,   43,   45,   47,   49,   51,   54,   56,   58,
         60,   63,   65,   68,   70,   73,   75,   78,   81,   83,   86,   89,   92,   95,   98,  101,
        105,  108,  111,  115,  118,  121,  125,  129,  132,  136,  140,  144,  147,  151,  155,  160,
        164,  168,  172,  176,  181,  185,  190,  194,  199,  204,  209,  213,  218,  223,  228,  233,
        239,  244,  249,  255,  260,  265,  271,  277,  282,  288,  294,  300,  306,  312,  318,  324,
        331,  337,  343,  350,  356,  363,  370,  376,  383,  390,  397,  404,  411,  418,  426,  433,
        440,  448,  455,  463,  471,  478,  486,  494,  502,  510,  518,  527,  535,  543,  552,  560,
        569,  578,  586,  595,  604,  613,  622,  631,  641,  650,  659,  669,  678,  688,  698,  707,
        717,  727,  737,  747,  757,  768,  778,  788,  799,  809,  820,  831,  842,  852,  863,  875,
        886,  897,  908,  920,  931,  943,  954,  966,  978,  990, 1002, 1014, 1026, 1038, 1050, 1063,
       1075, 1088, 1101, 1113, 1126, 1139, 1152, 1165, 1178, 1192, 1205, 1218, 1232, 1245, 1259, 1273,
       1287, 1301, 1315, 1329, 1343, 1357, 1372, 1386, 1401, 1415, 1430, 1445, 1460, 1475, 1490, 1505,
       1521, 1536, 1551, 1567, 1583, 1598, 1614, 1630, 1646, 1662, 1678, 1695, 1711, 1728, 1744, 1761,
       1778, 1794, 1811, 1828, 1846, 1863, 1880, 1897, 1915, 1933, 1950, 1968, 1986, 2004, 2022, 2040 >>

Gamma(v) == sRGBGammaTab[v + 1]

\* CIE Y and Z / Zn of a BGR pixel, D65, in 1/2040 units (12-bit coefficients).
LinY(p) == (Gamma(p[1]) * 296 + Gamma(p[2]) * 2929 + Gamma(p[3]) * 871 + 2048) \div 4096
LinZ(p) == (Gamma(p[1]) * 3575 + Gamma(p[2]) * 448 + Gamma(p[3]) * 73 + 2048) \div 4096

\* f(t) = t^(1/3) for t > 0.008856, else 7.787 t + 16/116; t = i/2040; result in 1/1000.
LabF(i) == IF i <= 18 THEN (7787 * i) \div 2040 + 138 ELSE ICbrt(i * 490196)

\* cv2.cvtColor(img, COLOR_BGR2LUV)[:, :, 0] : L* = 116 f(Y) - 16, scaled by 255/100.
LuvL(p) == saturate(cvRoundS(116 * 255 * LabF(LinY(p)) - 16 * 255 * 1000, 100000))

\* cv2.cvtColor(img, COLOR_BGR2Lab)[:, :, 2] : b* = 200 (f(Y) - f(Z/Zn)), offset 128.
LabB(p) == saturate(128 + cvRoundS(200 * (LabF(LinY(p)) - LabF(LinZ(p))), 1000))

\* cv2.cvtColor(img, COLOR_BGR2HLS)[:, :, 2] : S = (max - min) / (max + min) when
\* the lightness is below 1/2, else (max - min) / (2 - max - min); scaled by 255.
HlsS(p) ==
  LET mx == Max2(p[1], Max2(p[2], p[3]))
      mn == Min2(p[1], Min2(p[2], p[3]))
  IN  IF mx = mn THEN 0
      ELSE IF mx + mn < 255 THEN saturate(cvRound(255 * (mx - mn), mx + mn))
      ELSE saturate(cvRound(255 * (mx - mn), 510 - mx - mn))

\* cv2.cvtColor(img, COLOR_BGR2GRAY): fixed-point luma, 14 fractional bits.
Gray(p) == (p[1] * 1868 + p[2] * 9617 + p[3] * 4899 + 8192) \div 16384

\* cvtColor accepts 3 or 4 input channels for these codes (the fourth is dropped).
cvtColorAccepts(f) == f.c \in {3, 4}

(***************************************************************************)
(* cv2.Sobel(gray, CV_64F, dx, dy, ksize=3), border BORDER_REFLECT_101.    *)
(***************************************************************************)
Reflect101(i, n) ==
  IF n = 1 THEN 1
  ELSE IF i < 1 THEN 2 - i
  ELSE IF i > n THEN 2 * n - i
  ELSE i

At(g, r, x) == g[Reflect101(r, MapH(g))][Reflect101(x, MapW(g))]

SobelX(g) ==
  AsMap([r \in 1..MapH(g) |-> [x \in 1..MapW(g) |->
      (At(g, r - 1, x + 1) - At(g, r - 1, x - 1))
    + 2 * (At(g, r, x + 1) - At(g, r, x - 1))
    + (At(g, r + 1, x + 1) - At(g, r + 1, x - 1))]], MapH(g), MapW(g))

SobelY(g) ==
  AsMap([r \in 1..MapH(g) |-> [x \in 1..MapW(g) |->
      (At(g, r + 1, x - 1) - At(g, r - 1, x - 1))
    + 2 * (At(g, r + 1, x) - At(g, r - 1, x))
    + (At(g, r + 1, x + 1) - At(g, r - 1, x + 1))]], MapH(g), MapW(g))

(***************************************************************************)
(* Fixed-point images of the float64 maps.  SqrtFix compares exactly with  *)
(* whole thresholds (sqrt(s) >= 30 iff s >= 900, sqrt(s) <= 235 iff        *)
(* s <= 55225).  Arctan2 is exact at 0 and pi/2 and monotone in between.   *)
(***************************************************************************)
MagFix == 1000
AngFix == 10000
HalfPi == 15708

\* np.sqrt(s) in 1/MagFix units: exact at perfect squares, strictly between the
\* neighbouring whole values otherwise.
SqrtFix(s) ==
  LET r == ISqrt(s)
  IN  IF s = r * r THEN r * MagFix
      ELSE r * MagFix + Max2(1, ((s - r * r) * MagFix) \div (2 * r + 1))

\* arctan(y / x) for 0 < y <= x, in 1/AngFix radians.
AtanLe(y, x) == (7854 * y) \div x + (2730 * y * (x - y)) \div (x * x)

\* np.arctan2(y, x) for y >= 0, x >= 0, in 1/AngFix radians.
Arctan2(y, x) ==
  IF y = 0 THEN 0
  ELSE IF x = 0 THEN HalfPi
  ELSE IF y <= x THEN AtanLe(y, x)
  ELSE HalfPi - AtanLe(x, y)

(***************************************************************************)
(* LaneIsolator.__init__: the five threshold ranges.                       *)
(***************************************************************************)
L_THRESHOLD == <<120, 255>>
S_THRESHOLD == <<105, 255>>
B_THRESHOLD == <<180, 210>>
MAG_THRESHOLD == <<30 * MagFix, 235 * MagFix>>
DIR_THRESHOLD == <<0, HalfPi>>

InitAttrs ==
  [L_THRESHOLD |-> L_THRESHOLD, S_THRESHOLD |-> S_THRESHOLD,
   B_THRESHOLD |-> B_THRESHOLD, MAG_THRESHOLD |-> MAG_THRESHOLD,
   DIR_THRESHOLD |-> DIR_THRESHOLD]

(***************************************************************************)
(* LaneIsolator._within_threshold.  The result records the input array as  *)
(* the call leaves it (array) and the returned bitmap (ret).               *)
(***************************************************************************)
_within_threshold_strict(array, threshold) ==
  [array |-> array,
   ret   |-> AsMap([r \in 1..MapH(array) |-> [x \in 1..MapW(array) |->
                IF array[r][x] > threshold[1] /\ array[r][x] < threshold[2]
                THEN 1 ELSE 0]], MapH(array), MapW(array))]

_within_threshold_255(array, threshold) ==
  [array |-> array,
   ret   |-> AsMap([r \in 1..MapH(array) |-> [x \in 1..MapW(array) |->
                IF array[r][x] >= threshold[1] /\ array[r][x] <= threshold[2]
                THEN 255 ELSE 0]], MapH(array), MapW(array))]

_within_threshold_swapped(array, threshold) ==
  [array |-> array,
   ret   |-> AsMap([r \in 1..MapH(array) |-> [x \in 1..MapW(array) |->
                IF array[r][x] <= threshold[1] /\ array[r][x] <= threshold[2]
                THEN 1 ELSE 0]], MapH(array), MapW(array))]

_within_threshold(array, threshold) ==
  LET min_val     == threshold[1]
      max_val     == threshold[2]
      thresholded == zeros_like(array)
  IN  [array |-> array,
       ret   |-> AsMap([r \in 1..MapH(array) |-> [x \in 1..MapW(array) |->
                    IF array[r][x] >= min_val /\ array[r][x] <= max_val
                    THEN 1 ELSE thresholded[r][x]]], MapH(array), MapW(array))]

(***************************************************************************)
(* LaneIsolator.eq_histogram: the three channel assignments, in place.     *)
(* st = [img, err]; the assignment to a channel the frame does not have    *)
(* raises IndexError and leaves the earlier channels equalised.  For an    *)
(* empty frame cv2.equalizeHist returns None and the assignment raises.    *)
(***************************************************************************)
IsEmpty(f) == Height(f) = 0 \/ Width(f) = 0

eq_channel(st, k) ==
  IF st.err THEN st
  ELSE IF k > st.img.c THEN [st EXCEPT !.err = TRUE]
  ELSE IF IsEmpty(st.img) THEN [st EXCEPT !.err = TRUE]
  ELSE [st EXCEPT !.img = SetChannel(st.img, k, equalizeHist(Channel(st.img, k)))]

eq_histogram(img) ==
  eq_channel(eq_channel(eq_channel([img |-> img, err |-> FALSE], 1),
                        2), 3)

(***************************************************************************)
(* LaneIsolator.color_threshold.                                           *)
(***************************************************************************)
color_combine_and(l_thresh, s_thresh, b_thresh) ==
  AsMap([r \in 1..MapH(l_thresh) |-> [x \in 1..MapW(l_thresh) |->
     IF l_thresh[r][x] = 1 /\ s_thresh[r][x] = 1 /\ b_thresh[r][x] = 1
     THEN 1 ELSE 0]], MapH(l_thresh), MapW(l_thresh))

color_combine_or(l_thresh, s_thresh, b_thresh) ==
  AsMap([r \in 1..MapH(l_thresh) |-> [x \in 1..MapW(l_thresh) |->
     IF l_thresh[r][x] = 1 \/ s_thresh[r][x] = 1 \/ b_thresh[r][x] = 1
     THEN 1 ELSE 0]], MapH(l_thresh), MapW(l_thresh))

\* selection[(l_thresh == 1) & (s_thresh == 1) | (b_thresh == 1)] = 1
color_combine(l_thresh, s_thresh, b_thresh) ==
  LET selection == zeros_like(l_thresh)
  IN  AsMap([r \in 1..MapH(l_thresh) |-> [x \in 1..MapW(l_thresh) |->
        IF (l_thresh[r][x] = 1 /\ s_thresh[r][x] = 1) \/ b_thresh[r][x] = 1
        THEN 1 ELSE selection[r][x]]], MapH(l_thresh), MapW(l_thresh))

l_chan(img) == AsMap([r \in 1..Height(img) |-> [x \in 1..Width(img) |-> LuvL(img.px[r][x])]], Height(img), Width(img))
s_chan(img) == AsMap([r \in 1..Height(img) |-> [x \in 1..Width(img) |-> HlsS(img.px[r][x])]], Height(img), Width(img))
b_chan(img) == AsMap([r \in 1..Height(img) |-> [x \in 1..Width(img) |-> LabB(img.px[r][x])]], Height(img), Width(img))

color_threshold(img, attrs) ==
  IF ~cvtColorAccepts(img) \/ IsEmpty(img) THEN [err |-> TRUE]
  ELSE
    LET l_thresh == _within_threshold(l_chan(img), attrs.L_THRESHOLD).ret
        s_thresh == _within_threshold(s_chan(img), attrs.S_THRESHOLD).ret
        b_thresh == _within_threshold(b_chan(img), attrs.B_THRESHOLD).ret
    IN  [err |-> FALSE, l_thresh |-> l_thresh, s_thresh |-> s_thresh,
         b_thresh |-> b_thresh,
         selection |-> color_combine(l_thresh, s_thresh, b_thresh)]

(***************************************************************************)
(* LaneIsolator._gradients, _gradient_mag, _gradient_dir,                  *)
(* gradient_threshold.                                                     *)
(***************************************************************************)
_gradients(gray) == <<SobelX(gray), SobelY(gray)>>

_gradient_mag(gray) ==
  LET g == _gradients(gray)
  IN  AsMap([r \in 1..MapH(gray) |-> [x \in 1..MapW(gray) |->
         SqrtFix(g[1][r][x] * g[1][r][x] + g[2][r][x] * g[2][r][x])]], MapH(gray), MapW(gray))

_gradient_dir(gray) ==
  LET g == _gradients(gray)
  IN  AsMap([r \in 1..MapH(gray) |-> [x \in 1..MapW(gray) |->
         Arctan2(Abs(g[2][r][x]), Abs(g[1][r][x]))]], MapH(gray), MapW(gray))

grad_combine_or(mag_thresh, dir_thresh) ==
  AsMap([r \in 1..MapH(mag_thresh) |-> [x \in 1..MapW(mag_thresh) |->
     IF mag_thresh[r][x] = 1 \/ dir_thresh[r][x] = 1 THEN 1 ELSE 0]], MapH(mag_thresh), MapW(mag_thresh))

\* selection[(mag_thresh == 1) & (dir_thresh == 1)] = 1
grad_combine(mag_thresh, dir_thresh) ==
  LET selection == zeros_like(mag_thresh)
  IN  AsMap([r \in 1..MapH(mag_thresh) |-> [x \in 1..MapW(mag_thresh) |->
        IF mag_thresh[r][x] = 1 /\ dir_thresh[r][x] = 1
        THEN 1 ELSE selection[r][x]]], MapH(mag_thresh), MapW(mag_thresh))

gray_of(img) == AsMap([r \in 1..Height(img) |-> [x \in 1..Width(img) |-> Gray(img.px[r][x])]], Height(img), Width(img))

gradient_threshold(img, attrs) ==
  IF ~cvtColorAccepts(img) \/ IsEmpty(img) THEN [err |-> TRUE]
  ELSE
    LET gray       == gray_of(img)
        magnitude  == _gradient_mag(gray)
        direction  == _gradient_dir(gray)
        mag_thresh == _within_threshold(magnitude, attrs.MAG_THRESHOLD).ret
        dir_thresh == _within_threshold(direction, attrs.DIR_THRESHOLD).ret
    IN  [err |-> FALSE, magnitude |-> magnitude, direction |-> direction,
         mag_thresh |-> mag_thresh, dir_thresh |-> dir_thresh,
         selection |-> grad_combine(mag_thresh, dir_thresh)]

(***************************************************************************)
(* LaneIsolator.isolate_lines.  The result records the caller's buffer as  *)
(* the call leaves it (img), whether the call raised (err), the returned   *)
(* bitmap (mask) and the call's locals.                                    *)
(***************************************************************************)
select_and(color_select, grad_select) ==
  AsMap([r \in 1..MapH(color_select) |-> [x \in 1..MapW(color_select) |->
     IF color_select[r][x] = 1 /\ grad_select[r][x] = 1 THEN 1 ELSE 0]], MapH(color_select), MapW(color_select))

\* selection[(color_select == 1) | (grad_select == 1)] = 1
select_or(color_select, grad_select) ==
  LET selection == zeros_like(color_select)
  IN  AsMap([r \in 1..MapH(color_select) |-> [x \in 1..MapW(color_select) |->
        IF color_select[r][x] = 1 \/ grad_select[r][x] = 1
        THEN 1 ELSE selection[r][x]]], MapH(color_select), MapW(color_select))

NoLocals == [eq_calls |-> 0]

isolate_lines_adaptive(img, attrs) ==
  LET e     == eq_histogram(img)
      color == color_threshold(e.img, attrs)
      grad  == gradient_threshold(e.img, attrs)
      tuned == [attrs EXCEPT !.MAG_THRESHOLD = <<0, attrs.MAG_THRESHOLD[2]>>]
  IN  IF e.err \/ color.err \/ grad.err
      THEN [img |-> e.img, attrs |-> tuned, err |-> TRUE, mask |-> <<>>,
            loc |-> [eq_calls |-> 1]]
      ELSE [img |-> e.img, attrs |-> tuned, err |-> FALSE,
            mask |-> select_or(color.selection, grad.selection),
            loc |-> [eq_calls |-> 1, equalized |-> e.img,
                     color |-> color, grad |-> grad]]

isolate_lines(img, attrs) ==
  LET equalized == eq_histogram(img)
      color     == color_threshold(equalized.img, attrs)
      grad      == gradient_threshold(equalized.img, attrs)
  IN  IF equalized.err \/ color.err \/ grad.err
      THEN [img |-> equalized.img, attrs |-> attrs, err |-> TRUE, mask |-> <<>>,
            loc |-> [eq_calls |-> 1]]
      ELSE [img |-> equalized.img, attrs |-> attrs, err |-> FALSE,
            mask |-> select_or(color.selection, grad.selection),
            loc |-> [eq_calls |-> 1, equalized |-> equalized.img,
                     color |-> color, grad |-> grad]]

(***************************************************************************)
(* The frames the caller passes.                                           *)
(***************************************************************************)
Black == <<0, 0, 0>>
White == <<255, 255, 255>>
MidGray == <<128, 128, 128>>
Blue == <<255, 0, 0>>
DarkRed == <<0, 0, 180>>
Green == <<0, 255, 0>>

\* An h x w frame of colour p with the lower right corner (r + x >= 4) of colour q.
TwoTone(h, w, p, q) ==
  [c |-> 3, px |-> AsMap([r \in 1..h |-> [x \in 1..w |-> IF r + x >= 4 THEN q ELSE p]], h, w)]

Flat(h, w, p) == TwoTone(h, w, p, p)

Shapes == {<<1, MaxW>>, <<MaxH, MaxW>>}

TonePairs ==
  {<<Black, Blue>>, <<DarkRed, Black>>, <<Green, MidGray>>,
   <<MidGray, MidGray>>, <<DarkRed, DarkRed>>}

ValidFrames ==
  {TwoTone(s[1], s[2], t[1], t[2]) : s \in Shapes, t \in TonePairs}
  \cup {TwoTone(MaxH, 1, Black, Blue)}
  \cup {Flat(MaxH, MaxW, g) : g \in {Black, White}}

\* One row of MaxW pixels with c channels each.
ChanFrame(c) ==
  [c |-> c, px |-> << SubSeq([x \in 1..MaxW |-> SubSeq([k \in 1..c |->
                          IF x = MaxW THEN 200 ELSE 40 * k], 1, c)], 1, MaxW) >>]

EmptyFrame(c) == [c |-> c, px |-> << >>]

InvalidFrames ==
  {ChanFrame(c) : c \in (1..MaxChan) \ {3}} \cup {EmptyFrame(3)}

SmallFrames == ValidFrames \cup InvalidFrames

\* One row of BigW gray pixels: one of value 10, one of 20, fifteen of 30, the rest 40.
BigGray ==
  [c |-> 3, px |-> << SubSeq([x \in 1..BigW |->
      LET v == IF x = 1 THEN 10 ELSE IF x = 2 THEN 20 ELSE IF x <= 17 THEN 30 ELSE 40
      IN  <<v, v, v>>], 1, BigW) >>]

LargeFrames == {BigGray}

IsValid(f) == f.c = 3 /\ ~IsEmpty(f)
IsFlatGray(f) ==
  /\ IsValid(f)
  /\ \A r \in 1..Height(f) : \A x \in 1..Width(f) :
       /\ f.px[r][x] = f.px[1][1]
       /\ f.px[r][x][1] = f.px[r][x][2]
       /\ f.px[r][x][2] = f.px[r][x][3]

(***************************************************************************)
(* State.                                                                  *)
(*   attrs              the LaneIsolator's attributes (five ranges)        *)
(*   img                the buffer the caller holds (NoFrame before the    *)
(*                      first call); isolate_lines equalises it in place   *)
(*   loc                the locals of the latest isolate_lines call        *)
(*   log                one record per isolate_lines call: the frame as    *)
(*                      passed (arg), whether it was the buffer of the     *)
(*                      call before (same), and the outcome (err, mask)    *)
(*   unit               the latest direct call of a helper method          *)
(***************************************************************************)
VARIABLES attrs, img, loc, log, unit

vars == <<attrs, img, loc, log, unit>>

NoFrame == [c |-> 0, px |-> << >>]
NoUnit == [op |-> "none"]

Init ==
  /\ attrs = InitAttrs
  /\ img = NoFrame
  /\ loc = NoLocals
  /\ log = << >>
  /\ unit = NoUnit

\* One call isolate_lines(f) on the LaneIsolator.
Invoke(f, same) ==
  LET res == isolate_lines(f, attrs)
  IN  /\ Len(log) < MaxCalls
      /\ img' = res.img
      /\ attrs' = res.attrs
      /\ loc' = res.loc
      /\ log' = Append(log, [arg |-> f, same |-> same, err |-> res.err,
                             mask |-> res.mask])
      /\ UNCHANGED unit

\* The caller passes a new frame.
IsolateFresh == \E f \in SmallFrames : Invoke(f, FALSE)

\* The caller's first frame is a large one.
IsolateLarge == \E f \in LargeFrames : log = << >> /\ Invoke(f, FALSE)

\* The caller passes the buffer of the call before again.
IsolateSame == log # << >> /\ Invoke(img, TRUE)

Next == IsolateFresh \/ IsolateLarge \/ IsolateSame

Spec == Init /\ [][Next]_vars

(***************************************************************************)
(* Direct calls of the helper methods, one per behaviour.                  *)
(***************************************************************************)
Palette == {Black, White, MidGray, Blue, DarkRed, Green}

UnitFrames ==
  {TwoTone(s[1], s[2], p, q) : s \in Shapes \cup {<<MaxH, 1>>}, p \in Palette, q \in Palette}

UnitValues == {29, 30, 31}

UnitMaps ==
  {AsMap(<<m>>, 1, MaxW) : m \in [1..MaxW -> UnitValues]}
  \cup {AsMap(<< <<a>>, <<b>> >>, 2, 1) : a \in UnitValues, b \in UnitValues}

UnitRanges == UnitValues \X UnitValues

\* self._within_threshold(array, threshold)
CallWithinThreshold ==
  \E array \in UnitMaps, threshold \in UnitRanges :
    /\ unit = NoUnit
    /\ unit' = [op |-> "_within_threshold", array |-> array, threshold |-> threshold,
                res |-> _within_threshold(array, threshold)]
    /\ UNCHANGED <<attrs, img, loc, log>>

\* self.color_threshold(img)
CallColorThreshold ==
  \E f \in UnitFrames :
    /\ unit = NoUnit
    /\ unit' = [op |-> "color_threshold", img |-> f,
                res |-> color_threshold(f, attrs)]
    /\ UNCHANGED <<attrs, img, loc, log>>

\* self.gradient_threshold(img)
CallGradientThreshold ==
  \E f \in UnitFrames :
    /\ unit = NoUnit
    /\ unit' = [op |-> "gradient_threshold", img |-> f,
                res |-> gradient_threshold(f, attrs)]
    /\ UNCHANGED <<attrs, img, loc, log>>

\* The sub-mask that the range named k yields on frame f when that range is rng.
SubMask(k, f, rng) ==
  LET a == [InitAttrs EXCEPT ![k] = rng]
  IN  CASE k = "L_THRESHOLD"   -> color_threshold(f, a).l_thresh
        [] k = "S_THRESHOLD"   -> color_threshold(f, a).s_thresh
        [] k = "B_THRESHOLD"   -> color_threshold(f, a).b_thresh
        [] k = "MAG_THRESHOLD" -> gradient_threshold(f, a).mag_thresh
        [] k = "DIR_THRESHOLD" -> gradient_threshold(f, a).dir_thresh

RangeNames == DOMAIN InitAttrs

\* Bounds a range of the sub-mask named k is drawn from.
RangeGrid(k) ==
  CASE k = "MAG_THRESHOLD" -> {0, 30 * MagFix, 120 * MagFix, 235 * MagFix}
    [] k = "DIR_THRESHOLD" -> {0, 7854, HalfPi}
    [] OTHER -> {0, 100, 137, 180, 255}

RangesOf(k) == {rng \in RangeGrid(k) \X RangeGrid(k) : rng[1] <= rng[2]}

WidenFrames ==
  {TwoTone(MaxH, MaxW, Black, Blue), TwoTone(MaxH, MaxW, DarkRed, MidGray),
   TwoTone(1, MaxW, Green, White)}

\* Two LaneIsolators that differ in one range, the second one's being wider.
CallWiden ==
  \E k \in RangeNames, f \in WidenFrames :
    \E narrow \in RangesOf(k), wide \in RangesOf(k) :
      /\ unit = NoUnit
      /\ wide[1] <= narrow[1] /\ wide[2] >= narrow[2]
      /\ unit' = [op |-> "widen", which |-> k, img |-> f,
                  narrow |-> narrow, wide |-> wide,
                  narrow_mask |-> SubMask(k, f, narrow),
                  wide_mask |-> SubMask(k, f, wide)]
      /\ UNCHANGED <<attrs, img, loc, log>>

NextUnit ==
  CallWithinThreshold \/ CallColorThreshold \/ CallGradientThreshold \/ CallWiden

SpecUnit == Init /\ [][NextUnit]_vars

(***************************************************************************)
(* Properties.                                                             *)
(***************************************************************************)
Last == log[Len(log)]
InRange(v, rng) == rng[1] <= v /\ v <= rng[2]
IsBinary(m) == \A p \in Cells(m) : m[p[1]][p[2]] \in {0, 1}
AllZero(m) == \A p \in Cells(m) : m[p[1]][p[2]] = 0
CountSet(m) == Cardinality({p \in Cells(m) : m[p[1]][p[2]] = 1})
SameShape(m, f) == MapH(m) = Height(f) /\ MapW(m) = Width(f)
ValidCall == log # << >> /\ IsValid(Last.arg)

\* C1: on a valid 3-channel frame isolate_lines equalises once, runs both
\* selectors on the equalised frame and returns their elementwise OR: a pixel
\* of the mask is 1 iff the colour mask or the gradient mask is 1 there, else 0.
C1_IsolateIsUnion ==
  ValidCall =>
    /\ ~Last.err
    /\ loc.eq_calls = 1
    /\ loc.equalized = eq_histogram(Last.arg).img
    /\ loc.equalized = img
    /\ loc.color = color_threshold(loc.equalized, attrs)
    /\ loc.grad = gradient_threshold(loc.equalized, attrs)
    /\ SameShape(Last.mask, Last.arg)
    /\ \A p \in Cells(Last.mask) :
         Last.mask[p[1]][p[2]] =
           IF loc.color.selection[p[1]][p[2]] = 1 \/ loc.grad.selection[p[1]][p[2]] = 1
           THEN 1 ELSE 0

\* A valid call whose mask has a pixel set by the colour mask alone, a pixel set
\* by the gradient mask alone, and a pixel set by neither.
C1_Witness ==
  /\ ValidCall /\ ~Last.err
  /\ \E p \in Cells(Last.mask) :
       /\ loc.color.selection[p[1]][p[2]] = 1 /\ loc.grad.selection[p[1]][p[2]] = 0
       /\ Last.mask[p[1]][p[2]] = 1
  /\ \E p \in Cells(Last.mask) :
       /\ loc.color.selection[p[1]][p[2]] = 0 /\ loc.grad.selection[p[1]][p[2]] = 1
       /\ Last.mask[p[1]][p[2]] = 1
  /\ \E p \in Cells(Last.mask) : Last.mask[p[1]][p[2]] = 0

\* C2: color_threshold sets a pixel iff (lightness within L_THRESHOLD and
\* saturation within S_THRESHOLD) or chrominance within B_THRESHOLD.
C2_ColorRule ==
  (unit.op = "color_threshold") =>
    /\ ~unit.res.err
    /\ SameShape(unit.res.selection, unit.img)
    /\ \A p \in Cells(unit.res.selection) :
         LET px == unit.img.px[p[1]][p[2]]
         IN  unit.res.selection[p[1]][p[2]] =
               IF \/ (InRange(LuvL(px), L_THRESHOLD) /\ InRange(HlsS(px), S_THRESHOLD))
                  \/ InRange(LabB(px), B_THRESHOLD)
               THEN 1 ELSE 0

\* A frame with a pixel selected by chrominance although its lightness is out of
\* range, and a pixel left out because only its lightness is in range.
C2_Witness ==
  /\ unit.op = "color_threshold" /\ ~unit.res.err
  /\ \E p \in Cells(unit.res.selection) :
       LET px == unit.img.px[p[1]][p[2]]
       IN  /\ InRange(LabB(px), B_THRESHOLD) /\ ~InRange(LuvL(px), L_THRESHOLD)
           /\ unit.res.selection[p[1]][p[2]] = 1
  /\ \E p \in Cells(unit.res.selection) :
       LET px == unit.img.px[p[1]][p[2]]
       IN  /\ InRange(LuvL(px), L_THRESHOLD) /\ ~InRange(HlsS(px), S_THRESHOLD)
           /\ ~InRange(LabB(px), B_THRESHOLD)
           /\ unit.res.selection[p[1]][p[2]] = 0

\* C3: _within_threshold returns a map of the input's shape whose element is 1
\* iff low <= value <= high (both inclusive), else 0, and leaves the input as it was.
C3_WithinThreshold ==
  (unit.op = "_within_threshold") =>
    /\ MapH(unit.res.ret) = MapH(unit.array)
    /\ MapW(unit.res.ret) = MapW(unit.array)
    /\ \A p \in Cells(unit.array) :
         unit.res.ret[p[1]][p[2]] =
           IF unit.threshold[1] <= unit.array[p[1]][p[2]]
              /\ unit.array[p[1]][p[2]] <= unit.threshold[2]
           THEN 1 ELSE 0
    /\ unit.res.array = unit.array

\* A map with an element equal to low, one equal to high (low < high) and one
\* below low: the first two are set, the third is not.
C3_Witness ==
  /\ unit.op = "_within_threshold"
  /\ unit.threshold[1] < unit.threshold[2]
  /\ \E p \in Cells(unit.array) :
       unit.array[p[1]][p[2]] = unit.threshold[1] /\ unit.res.ret[p[1]][p[2]] = 1
  /\ \E p \in Cells(unit.array) :
       unit.array[p[1]][p[2]] = unit.threshold[2] /\ unit.res.ret[p[1]][p[2]] = 1
  /\ \E p \in Cells(unit.array) :
       unit.array[p[1]][p[2]] < unit.threshold[1] /\ unit.res.ret[p[1]][p[2]] = 0

\* C4: a second call with the buffer passed to the first call returns what the
\* first call returned.
C4_ReuseReturnsSameMask ==
  \A n \in 2..Len(log) :
    (log[n].same /\ ~log[n - 1].same) =>
      (log[n].err = log[n - 1].err /\ log[n].mask = log[n - 1].mask)

\* C5: calls on frames of identical content return identical results, and no call
\* changes the five ranges.
C5_Deterministic ==
  /\ attrs = InitAttrs
  /\ \A i \in 1..Len(log) : \A j \in 1..Len(log) :
       log[i].arg = log[j].arg => (log[i].err = log[j].err /\ log[i].mask = log[j].mask)

\* Two calls on valid frames of identical content, with a non-zero mask.
C5_Witness ==
  \E i \in 1..Len(log) : \E j \in 1..Len(log) :
    /\ i < j /\ log[i].arg = log[j].arg /\ ~log[j].same
    /\ IsValid(log[i].arg) /\ ~log[i].err
    /\ ~AllZero(log[i].mask) /\ log[j].mask = log[i].mask

\* C6: a frame that is empty or has a channel count other than 3 makes
\* isolate_lines raise; no mask is returned for it.
C6_InvalidFrameRaises ==
  \A n \in 1..Len(log) : ~IsValid(log[n].arg) => log[n].err

\* C7: gradient_threshold sets a pixel iff the magnitude is within MAG_THRESHOLD
\* and the direction within DIR_THRESHOLD; a uniform frame has magnitude 0
\* everywhere and an all-zero gradient mask.
C7_GradientRule ==
  (unit.op = "gradient_threshold") =>
    /\ ~unit.res.err
    /\ SameShape(unit.res.selection, unit.img)
    /\ \A p \in Cells(unit.res.selection) :
         unit.res.selection[p[1]][p[2]] =
           IF /\ InRange(unit.res.magnitude[p[1]][p[2]], MAG_THRESHOLD)
              /\ InRange(unit.res.direction[p[1]][p[2]], DIR_THRESHOLD)
           THEN 1 ELSE 0
    /\ (\A p \in Cells(unit.res.selection) : unit.img.px[p[1]][p[2]] = unit.img.px[1][1])
         => /\ AllZero(unit.res.magnitude)
            /\ AllZero(unit.res.selection)

\* A uniform frame: every direction is within DIR_THRESHOLD, every magnitude is 0,
\* and the gradient mask is all zero.
C7_Witness ==
  /\ unit.op = "gradient_threshold" /\ ~unit.res.err
  /\ \A p \in Cells(unit.res.selection) : unit.img.px[p[1]][p[2]] = unit.img.px[1][1]
  /\ Cells(unit.res.selection) # {}
  /\ \A p \in Cells(unit.res.selection) :
       /\ unit.res.dir_thresh[p[1]][p[2]] = 1
       /\ unit.res.magnitude[p[1]][p[2]] = 0
       /\ unit.res.selection[p[1]][p[2]] = 0

\* C8: on a valid frame every sample of every mask of the call is 0 or 1.
C8_MasksAreBinary ==
  ValidCall =>
    /\ ~Last.err
    /\ IsBinary(loc.color.l_thresh) /\ IsBinary(loc.color.s_thresh)
    /\ IsBinary(loc.color.b_thresh)
    /\ IsBinary(loc.grad.mag_thresh) /\ IsBinary(loc.grad.dir_thresh)
    /\ IsBinary(loc.color.selection) /\ IsBinary(loc.grad.selection)
    /\ IsBinary(Last.mask)

\* A valid call in which each of the eight masks has a 1.
C8_Witness ==
  /\ ValidCall /\ ~Last.err
  /\ ~AllZero(loc.color.l_thresh) /\ ~AllZero(loc.color.s_thresh)
  /\ ~AllZero(loc.color.b_thresh)
  /\ ~AllZero(loc.grad.mag_thresh) /\ ~AllZero(loc.grad.dir_thresh)
  /\ ~AllZero(loc.color.selection) /\ ~AllZero(loc.grad.selection)
  /\ ~AllZero(Last.mask)

\* C9: a flat gray frame yields an all-zero mask: no pixel passes the colour rule
\* and none passes the gradient rule.
C9_FlatGrayIsZero ==
  (log # << >> /\ IsFlatGray(Last.arg)) =>
    /\ ~Last.err
    /\ AllZero(loc.color.selection)
    /\ AllZero(loc.grad.selection)
    /\ SameShape(Last.mask, Last.arg)
    /\ AllZero(Last.mask)

\* A flat gray frame whose lightness is within L_THRESHOLD and whose direction is
\* within DIR_THRESHOLD at every pixel, and whose mask is all zero.
C9_Witness ==
  /\ log # << >> /\ IsFlatGray(Last.arg) /\ ~Last.err
  /\ Height(Last.arg) > 1 /\ Width(Last.arg) > 1
  /\ \A p \in Cells(Last.mask) :
       /\ loc.color.l_thresh[p[1]][p[2]] = 1
       /\ loc.grad.dir_thresh[p[1]][p[2]] = 1
       /\ Last.mask[p[1]][p[2]] = 0

\* C10: with the frame fixed, a wider range never clears a pixel of its sub-mask,
\* so the sub-mask's count of set pixels does not decrease.
C10_WideningIsMonotone ==
  (unit.op = "widen") =>
    /\ \A p \in Cells(unit.narrow_mask) :
         unit.narrow_mask[p[1]][p[2]] = 1 => unit.wide_mask[p[1]][p[2]] = 1
    /\ CountSet(unit.narrow_mask) <= CountSet(unit.wide_mask)

\* A range widened at both ends whose sub-mask gains pixels and keeps the old ones.
C10_Witness ==
  /\ unit.op = "widen"
  /\ unit.wide[1] < unit.narrow[1] /\ unit.wide[2] > unit.narrow[2]
  /\ CountSet(unit.narrow_mask) > 0
  /\ CountSet(unit.narrow_mask) < CountSet(unit.wide_mask)

====
